---- MODULE Spec2Model ----
(***************************************************************************)
(* A model of bitcoinlib/wallets.py: the HD wallet key store (DbKey),      *)
(* the ledger of unspent outputs (DbTransaction), coin selection and       *)
(* transaction assembly.  The three tables are functions from row id to    *)
(* row; every operation of HDWallet is one action.                         *)
(*                                                                         *)
(* A path string such as m/44'/0'/0'/1/7 is the sequence of its segments;  *)
(* a segment is <<number, marker>>, the marker being the hardening suffix   *)
(* ("" for none) and the number -1 standing for the root segment "m".      *)
(* A key (HDKey) is [seed, chain]: the master seed and the chain of child  *)
(* derivations from it; key_hex, key_wif and the address are injective in  *)
(* it, so one field `key` stands for the three columns.                    *)
(***************************************************************************)
EXTENDS Integers, Sequences, FiniteSets, TLC

VARIABLES
    DbWallet,        \* wallets table: id -> [name, main_key_id, balance]
    DbKey,           \* keys table: id -> row
    DbTransaction,   \* transactions (utxo) table: id -> row
    last,            \* the last operation: its arguments and what it returned
    sel,             \* coin selection on its own: [pc, amount, rows, query, result]
    session,         \* one HDWallet object: [wallet_id, key_objects, instances, returned]
    req,             \* from_key calls in flight, one per process: [pc, wallet, key, row, ret, err]
    sync,            \* an updateutxos call in flight: [pc, wallet, account_id, key_id, utxos, before]
    norm             \* normalize_path on its own: [pc, path, once, twice, err]

vars == <<DbWallet, DbKey, DbTransaction, last, sel, session, req, sync, norm>>

-----------------------------------------------------------------------------
(* Bounds of the model *)

MaxSelRows == 3      \* rows of the query _select_inputs is applied to on its own

MaxNewKeys == 2      \* rows added to the keys table after the wallets' creation
\* the rows the operations on keys may add to a wallet when run on their own
MaxTreeKeys == 4
MaxLookups == 3      \* HDWalletKey objects one HDWallet object makes in key()
MaxOwnerLookups == 1 \* the same, two wallets in the store
MaxWalletId == 2     \* wallets created where wallets are deleted

(* Program constants *)

None == -1                  \* Python's None for an optional integer argument
DefaultPurpose == 44        \* purpose=44 in create
DefaultFee == 30000         \* int(0.0003 * pow(10, 8))
DefaultMinConfirms == 4     \* min_confirms=4
default_account_id == 0     \* self.default_account_id = 0
bip44_cointype == 0         \* Network(DEFAULT_NETWORK).bip44_cointype, bitcoin

-----------------------------------------------------------------------------
(* Small helpers *)

Max(S) == CHOOSE x \in S : \A y \in S : y <= x
Min(S) == CHOOSE x \in S : \A y \in S : x <= y

RECURSIVE SumSeq(_)
SumSeq(s) == IF s = <<>> THEN 0 ELSE Head(s) + SumSeq(Tail(s))

\* the id an autoincrement primary key gives the next row
NextId(tbl) == IF DOMAIN tbl = {} THEN 1 ELSE Max(DOMAIN tbl) + 1

-----------------------------------------------------------------------------
(* Path algebra *)

HardMarks == {"'", "H", "h", "P", "p"}      \* level[-1] in "'HhPp"

RootM == <<-1, "">>                          \* the segment "m"
Hard(n) == <<n, "'">>                        \* "%d'" % n
Plain(n) == <<n, "">>                        \* str(n)

\* normalize_path: a hardening suffix becomes "'"
NormLevel(level) == IF level[2] \in HardMarks THEN <<level[1], "'">> ELSE level

normalize_path(path) == [i \in 1..Len(path) |-> NormLevel(path[i])]

\* parse_bip44_path: fields of the normalized path, <<>> standing for ''
parse_bip44_path(path) ==
    LET pathl == normalize_path(path)
        Field(i) == IF Len(pathl) < i THEN <<>> ELSE <<pathl[i]>>
    IN [ok |-> 0 < Len(pathl) /\ Len(pathl) <= 6,
        isprivate |-> pathl[1] = RootM,
        purpose |-> Field(2), cointype |-> Field(3), account |-> Field(4),
        change |-> Field(5), address_index |-> Field(6)]

\* s.replace(r + '/', '') on paths: every occurrence of the segments r that
\* is followed by a further segment is dropped, scanning left to right
RECURSIVE StrReplace(_, _)
StrReplace(s, r) ==
    IF s = <<>> THEN <<>>
    ELSE IF Len(s) > Len(r) /\ SubSeq(s, 1, Len(r)) = r
         THEN StrReplace(SubSeq(s, Len(r) + 1, Len(s)), r)
         ELSE <<Head(s)>> \o StrReplace(Tail(s), r)

-----------------------------------------------------------------------------
(* HDKey: the external key derivation *)

\* HDKey(import_key='') of wallet w: a new random master key
MasterKey(w) == [seed |-> w, chain |-> <<>>]

\* HDKey.subkey_for_path(level) for one level: "m" is the key itself, any
\* other level the child of that index, hardened iff it carries a marker
subkey_for_path(k, level) ==
    IF level = RootM THEN k
    ELSE [k EXCEPT !.chain = Append(@, <<level[1], level[2] \in HardMarks>>)]

KeyDepth(k) == Len(k.chain)                                   \* k.depth
child_index(k) == IF k.chain = <<>> THEN 0 ELSE k.chain[Len(k.chain)][1]

-----------------------------------------------------------------------------
(* The key store *)

\* the path written for an imported account key
AccountPath(account_id) ==
    <<RootM, Hard(DefaultPurpose), Hard(bip44_cointype), Hard(account_id)>>

\* HDWalletKey.from_key with an HDKey k: the existing row of that key if any
\* row of the table holds it, else a new row.  [db, id, err]
from_key(db, k, wallet_id, account_id, change, parent_id, path) ==
    LET keyexists == {i \in DOMAIN db : db[i].key = k}
        mismatch == KeyDepth(k) # Len(path) - 1
        newpath == IF mismatch THEN AccountPath(account_id) ELSE path
        nk == [wallet_id |-> wallet_id, key |-> k, account_id |-> account_id,
               depth |-> KeyDepth(k), change |-> change,
               address_index |-> child_index(k), parent_id |-> parent_id,
               path |-> newpath, balance |-> 0]
    IN IF keyexists # {}
       THEN [db |-> db, id |-> Min(keyexists), err |-> ""]
       ELSE IF mismatch /\ ~(path = <<RootM>> /\ KeyDepth(k) = 3)
       THEN [db |-> db, id |-> 0, err |-> "DepthMismatch"]
       ELSE IF mismatch /\ account_id = None       \* "%d'" % None
       THEN [db |-> db, id |-> 0, err |-> "TypeError"]
       ELSE [db |-> db @@ (NextId(db) :> nk), id |-> NextId(db), err |-> ""]

\* HDWallet.import_key(key, account_id): from_key with the defaults change 0,
\* parent_id 0 and path 'm'
import_key(db, wallet_id, key, account_id) ==
    from_key(db, key, wallet_id, account_id, 0, 0, <<RootM>>)

\* the row of the longest prefix of spath that is a path of the wallet, 0 if
\* none: the loop "while spath and not rkey"
ClosestAncestor(db, wallet_id, spath) ==
    LET Rows(n) == {i \in DOMAIN db : db[i].wallet_id = wallet_id
                                      /\ db[i].path = SubSeq(spath, 1, n)}
        lens == {n \in 1..Len(spath) : Rows(n) # {}}
    IN IF lens = {} THEN 0 ELSE Min(Rows(Max(lens)))

\* the key at the end of path below ck
RECURSIVE SubkeyAt(_, _, _)
SubkeyAt(ck, path, l) ==
    IF l > Len(path) THEN ck ELSE SubkeyAt(subkey_for_path(ck, path[l]), path, l + 1)

\* CreateLoop writing the node of the last level only
CreateLoopLast(db, ck, path, basepath, l, parent_id, nk, a) ==
    IF l > Len(path) THEN [db |-> db, id |-> nk, err |-> ""]
    ELSE from_key(db, SubkeyAt(ck, path, l), a.wallet_id, a.account_id, a.change,
                  parent_id, basepath \o path)

\* the loop "for l in range(len(path))" of _create_keys_from_path from its
\* l-th level on; a failing from_key ends it and keeps the rows committed so far
RECURSIVE CreateLoop(_, _, _, _, _, _, _, _)
CreateLoop(db, ck, path, basepath, l, parent_id, nk, a) ==
    IF l > Len(path) THEN [db |-> db, id |-> nk, err |-> ""]
    ELSE LET ck2 == subkey_for_path(ck, path[l])
             r == from_key(db, ck2, a.wallet_id, a.account_id, a.change,
                           parent_id, basepath \o SubSeq(path, 1, l))
         IN IF r.err # "" THEN r
            ELSE CreateLoop(r.db, ck2, path, basepath, l + 1, r.id, r.id, a)

\* HDWallet._create_keys_from_path(parent, path, ..., basepath): [db, id, err]
_create_keys_from_path(db, parent, path, basepath, a) ==
    LET spath == basepath \o path
        rkey == ClosestAncestor(db, a.wallet_id, spath)
        reroot == rkey # 0 /\ db[rkey].path # basepath
        path2 == IF reroot THEN StrReplace(spath, db[rkey].path) ELSE path
        basepath2 == IF reroot THEN db[rkey].path ELSE basepath
        nk == IF reroot THEN rkey ELSE parent
    IN CreateLoop(db, db[nk].key, path2, basepath2, 1, 0, nk, a)

\* HDWallet.keys(account_id, key_id, change, depth): the rows of the wallet
keys(db, wallet_id, account_id, key_id, change, depth) ==
    {i \in DOMAIN db :
        /\ db[i].wallet_id = wallet_id
        /\ account_id # None => db[i].account_id = account_id /\ db[i].depth > 3
        /\ change # None => db[i].change = change /\ db[i].depth > 4
        /\ depth # None => db[i].depth = depth
        /\ key_id # None => i = key_id}

\* new_account once the account key is there: the payment branch (path
\* ['0']) and then the change branch (path ['1']) under it; acckey is returned
AccountBranch(r, acckey, level, a) ==
    IF r.err # "" THEN r
    ELSE _create_keys_from_path(r.db, acckey, <<Plain(level)>>, r.db[acckey].path, a)

AccountBranches(r1, a) ==
    LET r3 == AccountBranch(AccountBranch(r1, r1.id, 0, a), r1.id, 1, a)
    IN IF r3.err # "" THEN r3 ELSE [r3 EXCEPT !.id = r1.id]

\* HDWallet.new_account(account_id): [db, id, err]
new_account(db, wallet_id, account_id0) ==
    LET mine == {i \in DOMAIN db : db[i].wallet_id = wallet_id}
        account_id == IF account_id0 # None THEN account_id0
                      ELSE IF mine = {} THEN None
                      ELSE Max({db[i].account_id : i \in mine}) + 1
        accrootkey == {i \in mine : db[i].depth = 2}
        a == [wallet_id |-> wallet_id, account_id |-> account_id, change |-> 0]
    IN IF account_id = None
       THEN [db |-> db, id |-> 0, err |-> "AttributeError"]
       ELSE IF keys(db, wallet_id, account_id, None, None, 3) # {}
       THEN [db |-> db, id |-> 0, err |-> "AccountExists"]
       ELSE IF Cardinality(accrootkey) > 1
       THEN [db |-> db, id |-> 0, err |-> "MultipleResultsFound"]
       ELSE IF accrootkey = {}
       THEN [db |-> db, id |-> 0, err |-> "MissingMasterKey"]
       ELSE AccountBranches(
                _create_keys_from_path(db, Min(accrootkey), <<Hard(account_id)>>,
                                       db[Min(accrootkey)].path, a), a)

\* NextAddressIndex leaving one index out
NextAddressIndexSkip(db, wallet_id, account_id, change) ==
    LET prev == {i \in DOMAIN db : /\ db[i].wallet_id = wallet_id
                                   /\ db[i].account_id = account_id
                                   /\ db[i].change = change
                                   /\ db[i].depth = 5}
    IN IF prev = {} THEN 0
       ELSE Max({db[i].address_index : i \in prev}) + 2

\* the new index new_key gives: one more than the largest address_index of
\* the depth-5 rows of the account and change flag, 0 if there is none
NextAddressIndex(db, wallet_id, account_id, change) ==
    LET prev == {i \in DOMAIN db : /\ db[i].wallet_id = wallet_id
                                   /\ db[i].account_id = account_id
                                   /\ db[i].change = change
                                   /\ db[i].depth = 5}
    IN IF prev = {} THEN 0
       ELSE Max({db[i].address_index : i \in prev}) + 1

\* new_key once the account key hk.id is there (hk.err: new_account failed)
NewKeyOfAccount(hk, a) ==
    IF hk.err # "" THEN hk
    ELSE _create_keys_from_path(
             hk.db, hk.id,
             <<Plain(a.change),
               Plain(NextAddressIndex(hk.db, a.wallet_id, a.account_id, a.change))>>,
             hk.db[hk.id].path, a)

\* HDWallet.new_key(account_id, change): [db, id, err]
new_key(db, wallet_id, account_id0, change) ==
    LET account_id == IF account_id0 = None THEN default_account_id
                      ELSE account_id0
        acckey == {i \in DOMAIN db : /\ db[i].wallet_id = wallet_id
                                     /\ db[i].account_id = account_id
                                     /\ db[i].depth = 3}
        a == [wallet_id |-> wallet_id, account_id |-> account_id,
              change |-> change]
    IN IF Cardinality(acckey) > 1
       THEN [db |-> db, id |-> 0, err |-> "MultipleResultsFound"]
       ELSE IF acckey = {}
       THEN NewKeyOfAccount(new_account(db, wallet_id, account_id), a)
       ELSE NewKeyOfAccount([db |-> db, id |-> Min(acckey), err |-> ""], a)

\* HDWallet.new_key_change(account_id)
new_key_change(db, wallet_id, account_id) == new_key(db, wallet_id, account_id, 1)

\* the path checks of key_for_path: "" when the path passes
PathCheck(path) ==
    LET pathdict == parse_bip44_path(path)
        Num(f) == IF f = <<>> THEN 0 ELSE f[1][1]
        Unhardened(f) == f[1][2] # "'"
    IN IF ~pathdict.ok THEN "InvalidPath"
       ELSE IF Num(pathdict.purpose) # DefaultPurpose THEN "PurposeMismatch"
       ELSE IF Num(pathdict.cointype) # bip44_cointype THEN "CointypeMismatch"
       ELSE IF pathdict.cointype = <<>> THEN "IndexError"
       ELSE IF Unhardened(pathdict.cointype) THEN "UnhardenedPath"
       ELSE IF Unhardened(pathdict.purpose) THEN "UnhardenedPath"
       ELSE IF pathdict.account = <<>> THEN "IndexError"
       ELSE IF Unhardened(pathdict.account) THEN "UnhardenedPath"
       ELSE ""

\* HDWallet.key_for_path(path, account_id, change, disable_check): [db, id, err]
key_for_path(db, wallet_id, path, account_id, change, disable_check) ==
    LET check == IF disable_check THEN "" ELSE PathCheck(path)
        rkey == ClosestAncestor(db, wallet_id, normalize_path(path))
        subpath == StrReplace(normalize_path(path), db[rkey].path)
        a == [wallet_id |-> wallet_id, account_id |-> account_id,
              change |-> change]
    IN IF check # "" THEN [db |-> db, id |-> 0, err |-> check]
       ELSE IF rkey = 0 THEN [db |-> db, id |-> 0, err |-> "AttributeError"]
       ELSE IF db[rkey].path = path THEN [db |-> db, id |-> rkey, err |-> ""]
       ELSE _create_keys_from_path(db, rkey, subpath, db[rkey].path, a)

-----------------------------------------------------------------------------
(* The ledger *)

\* the chain as the service sees it: every output that may be reported as
\* unspent, paying to the address of a key
Chain == <<
    [address |-> [seed |-> 1, chain |-> <<<<44, TRUE>>, <<0, TRUE>>, <<0, TRUE>>, <<0, FALSE>>>>],
     tx_hash |-> 1, output_n |-> 0, value |-> 150000, confirmations |-> 6],
    [address |-> [seed |-> 1, chain |-> <<<<44, TRUE>>, <<0, TRUE>>, <<0, TRUE>>, <<1, FALSE>>>>],
     tx_hash |-> 1, output_n |-> 1, value |-> 50000, confirmations |-> 6],
    [address |-> [seed |-> 1, chain |-> <<<<44, TRUE>>, <<0, TRUE>>, <<0, TRUE>>, <<0, FALSE>>, <<0, FALSE>>>>],
     tx_hash |-> 2, output_n |-> 0, value |-> 120000, confirmations |-> 1] >>

\* the sequences without repetition over a set
Orderings(S) ==
    {s \in [1..Cardinality(S) -> S] : \A i, j \in DOMAIN s : i # j => s[i] # s[j]}

\* Service.getutxos(addresslist): any of the chain's outputs that pay to one
\* of the addresses, in any order
getutxos(addresslist) ==
    LET mine == {c \in DOMAIN Chain : Chain[c].address \in addresslist}
    IN UNION {Orderings(S) : S \in SUBSET mine}

\* HDWallet.addresslist(account_id, key_id)
addresslist(db, wallet_id, account_id, key_id) ==
    {db[i].key : i \in keys(db, wallet_id, account_id, key_id, None, None)}

\* "DbTransaction.spend is False" in updateutxos: Python's identity test of
\* the column object against False, evaluated before the query is built
SpendIsFalse == FALSE

\* the unspent rows of the account, what a query on "spend IS false" selects
UnspentOfAccount(dbk, dbt, account_id) ==
    {i \in DOMAIN dbt : ~dbt[i].spend /\ dbk[dbt[i].key_id].account_id = account_id}

\* the rows the first query of updateutxos selects for deletion
StaleUtxos(dbk, dbt, account_id) ==
    {i \in DOMAIN dbt : SpendIsFalse /\ dbk[dbt[i].key_id].account_id = account_id}

\* ImportUtxos adding to key_balances only the utxos it stores
RECURSIVE ImportNewUtxos(_, _, _, _, _)
ImportNewUtxos(dbk, dbt, key_balances, utxos, n) ==
    IF n > Len(utxos) THEN [dbt |-> dbt, key_balances |-> key_balances]
    ELSE LET utxo == Chain[utxos[n]]
             key == CHOOSE i \in DOMAIN dbk : dbk[i].key = utxo.address
             kb == IF key \in DOMAIN key_balances
                   THEN [key_balances EXCEPT ![key] = @ + utxo.value]
                   ELSE key_balances @@ (key :> utxo.value)
             imported == \E i \in DOMAIN dbt : dbt[i].tx_hash = utxo.tx_hash
             new_utxo == [key_id |-> key, tx_hash |-> utxo.tx_hash,
                          confirmations |-> utxo.confirmations,
                          output_n |-> utxo.output_n, value |-> utxo.value,
                          spend |-> FALSE]
         IN IF imported
            THEN ImportNewUtxos(dbk, dbt, key_balances, utxos, n + 1)
            ELSE ImportNewUtxos(dbk, dbt @@ (NextId(dbt) :> new_utxo), kb, utxos, n + 1)

\* the loop "for utxo in utxos" of updateutxos from the n-th utxo on:
\* [dbt, key_balances]
RECURSIVE ImportUtxos(_, _, _, _, _)
ImportUtxos(dbk, dbt, key_balances, utxos, n) ==
    IF n > Len(utxos) THEN [dbt |-> dbt, key_balances |-> key_balances]
    ELSE LET utxo == Chain[utxos[n]]
             key == CHOOSE i \in DOMAIN dbk : dbk[i].key = utxo.address
             kb == IF key \in DOMAIN key_balances
                   THEN [key_balances EXCEPT ![key] = @ + utxo.value]
                   ELSE key_balances @@ (key :> utxo.value)
             imported == \E i \in DOMAIN dbt : dbt[i].tx_hash = utxo.tx_hash
             new_utxo == [key_id |-> key, tx_hash |-> utxo.tx_hash,
                          confirmations |-> utxo.confirmations,
                          output_n |-> utxo.output_n, value |-> utxo.value,
                          spend |-> FALSE]
         IN IF imported
            THEN ImportUtxos(dbk, dbt, kb, utxos, n + 1)
            ELSE ImportUtxos(dbk, dbt @@ (NextId(dbt) :> new_utxo), kb, utxos, n + 1)

RECURSIVE SumOver(_, _)
SumOver(f, S) == IF S = {} THEN 0
                 ELSE LET x == CHOOSE y \in S : TRUE IN f[x] + SumOver(f, S \ {x})

\* ValueDesc with the order turned round: smallest first
ValueAsc(dbt, S) ==
    {s \in Orderings(S) : \A i, j \in DOMAIN s : i < j => dbt[s[i]].value <= dbt[s[j]].value}

\* the possible orders of "order_by(DbTransaction.value.desc()).all()"
ValueDesc(dbt, S) ==
    {s \in Orderings(S) : \A i, j \in DOMAIN s : i < j => dbt[s[i]].value >= dbt[s[j]].value}

\* the loop "for utxo in lessers" of _select_inputs: [selected, total_amount]
RECURSIVE Accumulate(_, _, _, _, _)
Accumulate(dbt, lessers, n, amount, acc) ==
    IF n > Len(lessers) THEN acc
    ELSE IF acc.total_amount < amount
         THEN Accumulate(dbt, lessers, n + 1, amount,
                         [selected_utxos |-> Append(acc.selected_utxos, lessers[n]),
                          total_amount |-> acc.total_amount + dbt[lessers[n]].value])
         ELSE Accumulate(dbt, lessers, n + 1, amount, acc)

\* _select_inputs without "if total_amount < amount: return []"
SelectInputsPartial(amount, dbt, query) ==
    LET one_utxo == {i \in DOMAIN dbt : ~dbt[i].spend /\ dbt[i].value >= amount}
        lessers == {i \in DOMAIN dbt : ~dbt[i].spend /\ dbt[i].value < amount}
        Greedy(s) == Accumulate(dbt, s, 1, amount,
                                [selected_utxos |-> <<>>, total_amount |-> 0])
    IN IF ~query THEN {<<>>}
       ELSE IF one_utxo # {}
       THEN {<<i>> : i \in {j \in one_utxo : \A o \in one_utxo : dbt[j].value <= dbt[o].value}}
       ELSE {Greedy(s).selected_utxos : s \in ValueDesc(dbt, lessers)}

\* _select_inputs taking the largest covering record instead of the smallest
SelectInputsLargest(amount, dbt, query) ==
    LET one_utxo == {i \in DOMAIN dbt : ~dbt[i].spend /\ dbt[i].value >= amount}
        lessers == {i \in DOMAIN dbt : ~dbt[i].spend /\ dbt[i].value < amount}
        Greedy(s) == Accumulate(dbt, s, 1, amount,
                                [selected_utxos |-> <<>>, total_amount |-> 0])
    IN IF ~query THEN {<<>>}
       ELSE IF one_utxo # {}
       THEN {<<i>> : i \in {j \in one_utxo : \A o \in one_utxo : dbt[j].value >= dbt[o].value}}
       ELSE {IF Greedy(s).total_amount < amount THEN <<>> ELSE Greedy(s).selected_utxos
                : s \in ValueDesc(dbt, lessers)}

\* HDWallet._select_inputs(amount, utxo_query): the lists of row ids it may
\* return, one for each order the database may give rows of equal value.
\* query is FALSE when no utxo_query is passed; dbt holds the rows of the query.
_select_inputs(amount, dbt, query) ==
    LET one_utxo == {i \in DOMAIN dbt : ~dbt[i].spend /\ dbt[i].value >= amount}
        lessers == {i \in DOMAIN dbt : ~dbt[i].spend /\ dbt[i].value < amount}
        Greedy(s) == Accumulate(dbt, s, 1, amount,
                                [selected_utxos |-> <<>>, total_amount |-> 0])
    IN IF ~query THEN {<<>>}
       ELSE IF one_utxo # {}
       THEN {<<i>> : i \in {j \in one_utxo : \A o \in one_utxo : dbt[j].value <= dbt[o].value}}
       ELSE {IF Greedy(s).total_amount < amount THEN <<>> ELSE Greedy(s).selected_utxos
                : s \in ValueDesc(dbt, lessers)}

-----------------------------------------------------------------------------
(* State *)

\* no operation yet; every operation records itself in `last` with these fields
NoOp == [op |-> "", wallet |-> 0, account_id |-> None, key_id |-> None,
         err |-> "", ret |-> 0,
         utxos |-> <<>>,
         output_arr |-> <<>>, outputs |-> <<>>, fee |-> 0, min_confirms |-> 0, explicit |-> FALSE,
         tx |-> FALSE, inputs |-> <<>>, change |-> 0, ck |-> 0,
         path |-> <<>>, keychange |-> 0, disable_check |-> FALSE,
         force |-> FALSE,
         pc |-> "", broadcast |-> FALSE, txid |-> 0]

\* no HDWallet object yet. An HDWalletKey object is named by the number of the
\* HDWalletKey construction it comes from, 0 for the objects of _key_objects;
\* returned[k] are the objects key() returned for key id k
NoSession == [wallet_id |-> 0, key_objects |-> {}, instances |-> 0, returned |-> <<>>]

NoNorm == [pc |-> "off", path |-> <<>>, once |-> <<>>, twice |-> <<>>, err |-> ""]

\* the processes that call from_key at the same time
Procs == {1, 2}
NoReq == [pc |-> "idle", wallet |-> 0, key |-> MasterKey(0), row |-> <<>>,
          ret |-> 0, err |-> ""]
NoSync == [pc |-> "idle", wallet |-> 0, account_id |-> None, key_id |-> None,
           utxos |-> <<>>, before |-> <<>>]

NoSel == [pc |-> "off", amount |-> 0, rows |-> <<>>, query |-> FALSE, result |-> <<>>]

Init ==
    /\ DbWallet = <<>>
    /\ DbKey = <<>>
    /\ DbTransaction = <<>>
    /\ last = NoOp
    /\ sel = NoSel
    /\ session = NoSession
    /\ req = [p \in Procs |-> NoReq]
    /\ sync = NoSync
    /\ norm = NoNorm

\* the arguments the operations are called with
Accounts == {0, 1}
OutputArrs == {<<100000>>, <<60000, 60000>>}
InputsAndFee == {<<FALSE, None>>, <<FALSE, 10000>>, <<TRUE, None>>}   \* input_arr given, fee
KeyArgs == {<<0, 0>>, <<1, 1>>}                  \* account_id and change of key_for_path
\* account_id and key_id of updateutxos
Scopes(w) ==
    {<<a, None>> : a \in Accounts \cup {None}}
    \cup {<<None, k>> : k \in {i \in DOMAIN DbKey : DbKey[i].wallet_id = w /\ DbKey[i].depth = 4}}
KeyPaths ==
    { <<RootM, Hard(44), Hard(0), Hard(0), Plain(1), Plain(1)>>,     \* m/44'/0'/0'/1/1
      <<RootM, Hard(44), Hard(0), Hard(1)>>,                         \* m/44'/0'/1'
      <<RootM, <<44, "h">>, Hard(0), Hard(0)>>,                      \* m/44h/0'/0'
      <<RootM, Hard(44), Hard(0), Plain(0)>> }                       \* m/44'/0'/0
\* the keys import_key is given: the wallet's own master key, the master key
\* and an account key of another seed
ForeignSeed == 2
ImportKeys(w) ==
    { MasterKey(w), MasterKey(ForeignSeed),
      [seed |-> ForeignSeed, chain |-> <<<<DefaultPurpose, TRUE>>, <<bip44_cointype, TRUE>>, <<0, TRUE>>>>] }
WalletNames == {"MyWallet"}
CreateAccounts == {0}

\* the rows create writes for a wallet: m, purpose, coin type, the account
\* and its two branches
CreateKeys == Len(AccountPath(0)) + 2

\* the bound on the keys table: a step is taken when it leaves at most n rows
\* more than create writes
KeysBound(n) ==
    Cardinality(DOMAIN DbKey') <= CreateKeys * Cardinality(DOMAIN DbWallet') + n

-----------------------------------------------------------------------------
(* Operations *)

\* create after the master key row mk: the purpose and coin type rows, then
\* new_account(account_id)
CreateSubtree(mk, w, account_id) ==
    LET Account(r1) == IF r1.err # "" THEN r1 ELSE new_account(r1.db, w, account_id)
    IN Account(_create_keys_from_path(
                   mk.db, mk.id, <<Hard(DefaultPurpose), Hard(bip44_cointype)>>,
                   <<RootM>>,
                   [wallet_id |-> w, account_id |-> account_id, change |-> 0]))

CreateWallet(w, name, account_id, mk, res) ==
    /\ DbWallet' = DbWallet @@ (w :> [name |-> name, main_key_id |-> mk.id,
                                      balance |-> 0])
    /\ DbKey' = res.db
    /\ last' = [NoOp EXCEPT !.op = "create", !.wallet = w,
                            !.account_id = account_id, !.err = res.err,
                            !.ret = mk.id]
    /\ UNCHANGED <<DbTransaction, sel, session, req, sync, norm>>

\* HDWallet.create(name, account_id) with no key: a new wallet on a new
\* random master key, unless the name is taken
Create(name, account_id) ==
    LET w == NextId(DbWallet)
        mk == from_key(DbKey, MasterKey(w), w, account_id, 0, 0, <<RootM>>)
    IN IF \E i \in DOMAIN DbWallet : DbWallet[i].name = name
       THEN /\ last' = [NoOp EXCEPT !.op = "create", !.account_id = account_id,
                                    !.err = "DuplicateWalletName"]
            /\ UNCHANGED <<DbWallet, DbKey, DbTransaction, sel, session, req, sync, norm>>
       ELSE CreateWallet(w, name, account_id, mk, CreateSubtree(mk, w, account_id))

KeyOp(op, w, account_id, r) ==
    /\ DbKey' = r.db
    /\ last' = [NoOp EXCEPT !.op = op, !.wallet = w, !.account_id = account_id,
                            !.err = r.err, !.ret = r.id]
    /\ UNCHANGED <<DbWallet, DbTransaction, sel, session, req, sync, norm>>

NewAccount(w, account_id) ==
    KeyOp("new_account", w, account_id, new_account(DbKey, w, account_id))

NewKeyOp(w, account_id, change, r) ==
    /\ DbKey' = r.db
    /\ last' = [NoOp EXCEPT !.op = "new_key", !.wallet = w,
                            !.account_id = account_id, !.err = r.err,
                            !.ret = r.id, !.keychange = change]
    /\ UNCHANGED <<DbWallet, DbTransaction, sel, session, req, sync, norm>>

NewKey(w, account_id, change) ==
    NewKeyOp(w, account_id, change, new_key(DbKey, w, account_id, change))

ImportKey(w, key, account_id) ==
    KeyOp("import_key", w, account_id, import_key(DbKey, w, key, account_id))

KeyForPathOp(w, path, account_id, change, disable_check, r) ==
    /\ DbKey' = r.db
    /\ last' = [NoOp EXCEPT !.op = "key_for_path", !.wallet = w,
                            !.account_id = account_id, !.err = r.err,
                            !.ret = r.id, !.path = path, !.keychange = change,
                            !.disable_check = disable_check]
    /\ UNCHANGED <<DbWallet, DbTransaction, sel, session, req, sync, norm>>

KeyForPath(w, path, account_id, change, disable_check) ==
    KeyForPathOp(w, path, account_id, change, disable_check,
                 key_for_path(DbKey, w, path, account_id, change, disable_check))

\* the end of updateutxos: the balances of the keys and of the wallet
WriteBalances(w, r) ==
    /\ DbTransaction' = r.dbt
    /\ DbKey' = [i \in DOMAIN DbKey |->
                    IF i \in DOMAIN r.key_balances
                    THEN [DbKey[i] EXCEPT !.balance = r.key_balances[i]]
                    ELSE DbKey[i]]
    /\ DbWallet' = [DbWallet EXCEPT
                      ![w].balance = SumOver(r.key_balances, DOMAIN r.key_balances)]

\* HDWallet.updateutxos(account_id, key_id), the service answering utxos
UpdateUtxos(w, account_id, key_id, utxos) ==
    LET stale == StaleUtxos(DbKey, DbTransaction, account_id)
        dbt == [i \in DOMAIN DbTransaction \ stale |-> DbTransaction[i]]
    IN /\ WriteBalances(w, ImportUtxos(DbKey, dbt, <<>>, utxos, 1))
       /\ last' = [NoOp EXCEPT !.op = "updateutxos", !.wallet = w,
                               !.account_id = account_id, !.key_id = key_id,
                               !.utxos = utxos]
       /\ UNCHANGED <<sel, session, req, sync, norm>>

\* create_transaction from "Add change output" on: the change key ck of
\* new_key_change, then signing and t.verify()
AddChange(call, ck, output_arr, amount_change, verify) ==
    /\ DbKey' = ck.db
    /\ last' = [call EXCEPT
                  !.err = IF ck.err # "" THEN ck.err
                          ELSE IF verify THEN ""
                          ELSE "TransactionVerificationFailed",
                  !.tx = (ck.err = "" /\ verify),
                  !.change = amount_change,
                  !.ck = ck.id,
                  !.outputs = IF ck.err = ""
                              THEN Append(output_arr, amount_change)
                              ELSE output_arr]
    /\ UNCHANGED <<DbWallet, DbTransaction, sel, session, req, sync, norm>>

\* HDWallet.create_transaction(output_arr, input_arr, account_id, fee,
\* min_confirms); explicit: an input_arr is passed; verify: what t.verify() says
CreateTransactionOp(op, w, output_arr, explicit, account_id0, fee0, min_confirms) ==
    LET amount_total_output == SumSeq(output_arr)
        account_id == IF account_id0 = None THEN default_account_id ELSE account_id0
        \* qr.join(...).filter(...) and qr.filter(...) return new queries that
        \* are dropped: qr stays the query of every row of the table
        qr == DbTransaction
        utxos == DOMAIN qr
        fee == IF fee0 = None THEN DefaultFee ELSE fee0
        call == [NoOp EXCEPT !.op = op, !.wallet = w,
                             !.pc = IF op = "send" THEN "created" ELSE "",
                             !.account_id = account_id, !.output_arr = output_arr,
                             !.outputs = output_arr,
                             !.fee = fee, !.min_confirms = min_confirms,
                             !.explicit = explicit]
    IN IF utxos = {}
       THEN /\ last' = [call EXCEPT !.err = "None"]
            /\ UNCHANGED <<DbWallet, DbKey, DbTransaction, sel, session, req, sync, norm>>
       ELSE IF explicit
       THEN /\ last' = [call EXCEPT !.err = "UnsupportedOperation"]
            /\ UNCHANGED <<DbWallet, DbKey, DbTransaction, sel, session, req, sync, norm>>
       ELSE \E selected_utxos \in _select_inputs(amount_total_output + fee, qr, TRUE) :
            LET amount_total_input ==
                    SumSeq([n \in DOMAIN selected_utxos |-> qr[selected_utxos[n]].value])
                amount_change == amount_total_input - (amount_total_output + fee)
            IN IF selected_utxos = <<>>
               THEN /\ last' = [call EXCEPT !.err = "InsufficientFunds"]
                    /\ UNCHANGED <<DbWallet, DbKey, DbTransaction, sel, session, req, sync, norm>>
               ELSE \E verify \in BOOLEAN :
                    IF amount_change = 0
                    THEN /\ last' = [call EXCEPT
                                       !.err = IF verify THEN ""
                                               ELSE "TransactionVerificationFailed",
                                       !.tx = verify, !.inputs = selected_utxos]
                         /\ UNCHANGED <<DbWallet, DbKey, DbTransaction, sel, session, req, sync, norm>>
                    ELSE AddChange([call EXCEPT !.inputs = selected_utxos],
                                   new_key_change(DbKey, w, account_id),
                                   output_arr, amount_change, verify)

\* HDWallet.create_transaction(output_arr, input_arr, account_id, fee,
\* min_confirms) called by the user
CreateTransaction(w, output_arr, explicit, account_id0, fee0, min_confirms) ==
    CreateTransactionOp("create_transaction", w, output_arr, explicit, account_id0,
                        fee0, min_confirms)

\* send that hands to the service whatever create_transaction left
SendUnchecked(call, txid) ==
    [call EXCEPT !.pc = "done", !.broadcast = TRUE, !.txid = txid,
                 !.err = IF txid = 0 THEN "BroadcastFailed" ELSE ""]

\* send after its create_transaction call, which left the record call; txid
\* is what sendrawtransaction answers, 0 for none
send(call, txid) ==
    IF call.err = "None"                    \* t is None: t.raw()
    THEN [call EXCEPT !.pc = "done", !.err = "AttributeError"]
    ELSE IF call.err # ""                   \* create_transaction raised
    THEN [call EXCEPT !.pc = "done"]
    ELSE [call EXCEPT !.pc = "done", !.broadcast = TRUE, !.txid = txid,
                      !.err = IF txid = 0 THEN "BroadcastFailed" ELSE ""]

\* HDWallet.send(to_address, amount, account_id, fee): its call of
\* create_transaction with the one output
SendCreate(w, amount, account_id, fee) ==
    CreateTransactionOp("send", w, <<amount>>, FALSE, account_id, fee, DefaultMinConfirms)

\* the rest of send: the transaction goes to the service
SendBroadcast(txid) ==
    /\ last.op = "send" /\ last.pc = "created"
    /\ last' = send(last, txid)
    /\ UNCHANGED <<DbWallet, DbKey, DbTransaction, sel, session, req, sync, norm>>

\* delete_wallet with no test of the balances
DeleteUnchecked(dbw, dbk, w, force) ==
    LET first == Min(w)
        ks == {i \in DOMAIN dbk : dbk[i].wallet_id = first}
    IN IF w = {}
       THEN [dbw |-> dbw, dbk |-> dbk, id |-> 0, err |-> "WalletNotFound"]
       ELSE [dbw |-> [i \in DOMAIN dbw \ w |-> dbw[i]],
             dbk |-> [i \in DOMAIN dbk \ ks |-> dbk[i]],
             id |-> first, err |-> ""]

\* delete_wallet(wallet, force), w the rows the query on DbWallet selects by
\* id or by name: [dbw, dbk, id, err]
delete_wallet(dbw, dbk, w, force) ==
    LET first == Min(w)
        ks == {i \in DOMAIN dbk : dbk[i].wallet_id = first}
    IN IF w = {}
       THEN [dbw |-> dbw, dbk |-> dbk, id |-> 0, err |-> "WalletNotFound"]
       ELSE IF ~force /\ \E k \in ks : dbk[k].balance # 0
       THEN [dbw |-> dbw, dbk |-> dbk, id |-> first, err |-> "ForceDeleteRequired"]
       ELSE [dbw |-> [i \in DOMAIN dbw \ w |-> dbw[i]],
             dbk |-> [i \in DOMAIN dbk \ ks |-> dbk[i]],
             id |-> first, err |-> ""]

DeleteWalletOp(force, r) ==
    /\ DbWallet' = r.dbw
    /\ DbKey' = r.dbk
    /\ last' = [NoOp EXCEPT !.op = "delete_wallet", !.wallet = r.id,
                            !.err = r.err, !.force = force]
    /\ UNCHANGED <<DbTransaction, sel, session, req, sync, norm>>

DeleteWallet(w, force) ==
    DeleteWalletOp(force, delete_wallet(DbWallet, DbKey, w, force))

\* the caller takes what the operation returned
Return ==
    /\ last # NoOp
    /\ last.pc # "created"
    /\ last' = NoOp
    /\ UNCHANGED <<DbWallet, DbKey, DbTransaction, sel, session, req, sync, norm>>

Idle == last = NoOp

Next ==
    \/ Return
    \/ \E n \in WalletNames, a \in CreateAccounts :
          Idle /\ Create(n, a) /\ KeysBound(MaxNewKeys)
    \/ \E w \in DOMAIN DbWallet, a \in Accounts \cup {None} :
          Idle /\ NewAccount(w, a) /\ KeysBound(MaxNewKeys)
    \/ \E w \in DOMAIN DbWallet, a \in Accounts \cup {None}, c \in {0, 1} :
          Idle /\ NewKey(w, a, c) /\ KeysBound(MaxNewKeys)
    \/ \E w \in DOMAIN DbWallet, a \in {0, None} : \E k \in ImportKeys(w) :
          Idle /\ ImportKey(w, k, a) /\ KeysBound(MaxNewKeys)
    \/ \E w \in DOMAIN DbWallet, p \in KeyPaths, ac \in KeyArgs, d \in BOOLEAN :
          Idle /\ KeyForPath(w, p, ac[1], ac[2], d) /\ KeysBound(MaxNewKeys)
    \/ \E w \in DOMAIN DbWallet : \E sc \in Scopes(w) :
          \E u \in getutxos(addresslist(DbKey, w, sc[1], sc[2])) :
             Idle /\ UpdateUtxos(w, sc[1], sc[2], u)
    \/ \E w \in DOMAIN DbWallet, o \in OutputArrs, ef \in InputsAndFee, a \in Accounts :
          Idle /\ CreateTransaction(w, o, ef[1], a, ef[2], DefaultMinConfirms)
               /\ KeysBound(MaxNewKeys)

Spec == Init /\ [][Next]_vars

-----------------------------------------------------------------------------
(* The key store on its own: the operations on keys, on a larger tree *)

NextKeys ==
    \/ Return
    \/ \E n \in WalletNames, a \in CreateAccounts :
          Idle /\ Create(n, a) /\ KeysBound(MaxTreeKeys)
    \/ \E w \in DOMAIN DbWallet, a \in Accounts \cup {None} :
          Idle /\ NewAccount(w, a) /\ KeysBound(MaxTreeKeys)
    \/ \E w \in DOMAIN DbWallet, a \in Accounts \cup {None}, c \in {0, 1} :
          Idle /\ NewKey(w, a, c) /\ KeysBound(MaxTreeKeys)
    \/ \E w \in DOMAIN DbWallet, a \in {0, None} : \E k \in ImportKeys(w) :
          Idle /\ ImportKey(w, k, a) /\ KeysBound(MaxTreeKeys)
    \/ \E w \in DOMAIN DbWallet, p \in KeyPaths, ac \in KeyArgs, d \in BOOLEAN :
          Idle /\ KeyForPath(w, p, ac[1], ac[2], d) /\ KeysBound(MaxTreeKeys)

SpecKeys == Init /\ [][NextKeys]_vars

-----------------------------------------------------------------------------
(* The path checks on their own: key_for_path in strict mode on every path
   of 1 to 6 segments over a few segments *)

\* the segments tried as purpose, coin type and account, and below them
UpperSegments == {Hard(DefaultPurpose), Plain(DefaultPurpose), Hard(0), Plain(0), Hard(1)}
LowerSegments == {Plain(0)}
StrictPaths ==
    {<<RootM>> \o u \o l :
        u \in UNION {[1..n -> UpperSegments] : n \in 0..3},
        l \in UNION {[1..n -> LowerSegments] : n \in 0..2}}
    \ {<<RootM>> \o u \o l :
        u \in UNION {[1..n -> UpperSegments] : n \in 0..2},
        l \in UNION {[1..n -> LowerSegments] : n \in 1..2}}

NextPaths ==
    \/ Return
    \/ \E n \in WalletNames, a \in CreateAccounts :
          Idle /\ Create(n, a) /\ KeysBound(MaxNewKeys)
    \/ \E w \in DOMAIN DbWallet, p \in StrictPaths :
          Idle /\ KeyForPath(w, p, 0, 0, FALSE) /\ KeysBound(MaxNewKeys)

SpecPaths == Init /\ [][NextPaths]_vars

-----------------------------------------------------------------------------
(* Deletion: wallets created, synced and deleted *)

DeleteNames == {"MyWallet", "Savings"}

\* the rows delete_wallet's query selects, the wallet given by name or by id
WalletQueries ==
    {{i \in DOMAIN DbWallet : DbWallet[i].name = n} : n \in DeleteNames}
    \cup {{i \in DOMAIN DbWallet : i = id} : id \in 1..MaxWalletId}

\* a wallet is created on a new random master key, which is the key of no
\* wallet deleted before: no wallet is created over the rows a deletion left
NextDelete ==
    \/ Return
    \/ \E n \in DeleteNames, a \in CreateAccounts :
          /\ Idle /\ DbTransaction = <<>> /\ NextId(DbWallet) <= MaxWalletId
          /\ Create(n, a)
    \/ \E w \in DOMAIN DbWallet : \E sc \in Scopes(w) :
          \E u \in getutxos(addresslist(DbKey, w, sc[1], sc[2])) :
             Idle /\ UpdateUtxos(w, sc[1], sc[2], u)
    \/ \E w \in WalletQueries, force \in BOOLEAN : Idle /\ DeleteWallet(w, force)

SpecDelete == Init /\ [][NextDelete]_vars

-----------------------------------------------------------------------------
(* One HDWallet object and its _key_objects; create, import_key and the other
   calls above are calls on other HDWallet objects of the same store *)

\* HDWallet.__init__(wallet): _key_objects holds the main key
Open(w) ==
    /\ session' = [NoSession EXCEPT !.wallet_id = w,
                                    !.key_objects = {DbWallet[w].main_key_id}]
    /\ last' = [NoOp EXCEPT !.op = "open", !.wallet = w]
    /\ UNCHANGED <<DbWallet, DbKey, DbTransaction, sel, req, sync, norm>>

\* the rows the queries of key(term) select: by id, by address or key_wif
KeyQueries ==
    {{i \in DOMAIN DbKey : i = id} : id \in 1..NextId(DbKey)}
    \cup {{i \in DOMAIN DbKey : DbKey[i].key = DbKey[j].key} : j \in DOMAIN DbKey}

\* what key() hands back for row dbkey: [object, instances]
KeyObject(dbkey) ==
    IF dbkey \in session.key_objects
    THEN [object |-> 0, instances |-> session.instances]
    ELSE [object |-> session.instances + 1, instances |-> session.instances + 1]

\* HDWallet.key(term), rows the rows the queries select
Key(rows) ==
    /\ session.wallet_id # 0
    /\ IF rows = {}
       THEN /\ last' = [NoOp EXCEPT !.op = "key", !.wallet = session.wallet_id,
                                    !.err = "KeyError"]
            /\ UNCHANGED session
       ELSE LET dbkey == Min(rows)
                obj == KeyObject(dbkey)
                seen == IF dbkey \in DOMAIN session.returned
                        THEN session.returned[dbkey] ELSE {}
            IN /\ last' = [NoOp EXCEPT !.op = "key", !.wallet = session.wallet_id,
                                       !.key_id = dbkey, !.ret = obj.object]
               /\ session' = [session EXCEPT
                     !.instances = obj.instances,
                     !.returned = (dbkey :> (seen \cup {obj.object})) @@ @]
    /\ UNCHANGED <<DbWallet, DbKey, DbTransaction, sel, req, sync, norm>>

\* new_key on this HDWallet object: _create_keys_from_path puts every node it
\* writes into _key_objects
SessionNewKeyOp(account_id, change, r) ==
    /\ DbKey' = r.db
    /\ last' = [NoOp EXCEPT !.op = "new_key", !.wallet = session.wallet_id,
                            !.account_id = account_id, !.err = r.err,
                            !.ret = r.id, !.keychange = change]
    /\ session' = [session EXCEPT !.key_objects = @ \cup (DOMAIN r.db \ DOMAIN DbKey)]
    /\ UNCHANGED <<DbWallet, DbTransaction, sel, req, sync, norm>>

SessionNewKey(account_id, change) ==
    /\ session.wallet_id \in DOMAIN DbWallet
    /\ SessionNewKeyOp(account_id, change,
                       new_key(DbKey, session.wallet_id, account_id, change))

NextSession ==
    \/ Return
    \/ \E n \in WalletNames, a \in CreateAccounts : Idle /\ Create(n, a)
    \/ \E w \in DOMAIN DbWallet : Idle /\ Open(w)
    \/ \E w \in DOMAIN DbWallet : \E a \in {0, None}, k \in ImportKeys(w) :
          Idle /\ ImportKey(w, k, a) /\ KeysBound(MaxNewKeys)
    \/ \E a \in {0, None}, c \in {0, 1} :
          Idle /\ SessionNewKey(a, c) /\ KeysBound(MaxNewKeys)
    \/ \E rows \in KeyQueries :
          Idle /\ session.instances < MaxLookups /\ Key(rows)

SpecSession == Init /\ [][NextSession]_vars

-----------------------------------------------------------------------------
(* Two wallets in one store: keys imported and looked up across them *)

NextOwner ==
    \/ Return
    \/ \E n \in DeleteNames, a \in CreateAccounts :
          Idle /\ NextId(DbWallet) <= MaxWalletId /\ Create(n, a)
    \/ \E w \in DOMAIN DbWallet : Idle /\ Open(w)
    \/ \E w \in DOMAIN DbWallet : \E a \in {0, None}, k \in ImportKeys(w) :
          Idle /\ ImportKey(w, k, a) /\ KeysBound(MaxNewKeys)
    \/ \E rows \in KeyQueries :
          Idle /\ session.instances < MaxOwnerLookups /\ Key(rows)

SpecOwner == Init /\ [][NextOwner]_vars

-----------------------------------------------------------------------------
(* import_key calls of several processes on one store, each from_key call in
   two steps: the queries for an existing row, then session.add and commit *)

\* what the commit of a row does when the table holds its key material by
\* then: the schema of the keys table decides, a unique key column refuses it
StoreOutcomes == {"written", "IntegrityError"}

\* from_key up to the queries: the row found, the error raised, or the row to
\* add
FromKeyCheckOp(p, w, k, r) ==
    /\ req' = [req EXCEPT ![p] =
          IF r.db = DbKey
          THEN [NoReq EXCEPT !.pc = "done", !.wallet = w, !.key = k,
                             !.ret = r.id, !.err = r.err]
          ELSE [NoReq EXCEPT !.pc = "checked", !.wallet = w, !.key = k,
                             !.row = r.db[r.id]]]
    /\ UNCHANGED <<DbWallet, DbKey, DbTransaction, last, sel, session, sync, norm>>

FromKeyCheck(p, w, k, account_id) ==
    /\ req[p].pc = "idle"
    /\ FromKeyCheckOp(p, w, k, import_key(DbKey, w, k, account_id))

\* session.add(nk), session.commit() and the id of the new row
FromKeyInsert(p) ==
    /\ req[p].pc = "checked"
    /\ \E o \in IF \E i \in DOMAIN DbKey : DbKey[i].key = req[p].key
                THEN StoreOutcomes ELSE {"written"} :
          IF o = "written"
          THEN /\ DbKey' = DbKey @@ (NextId(DbKey) :> req[p].row)
               /\ req' = [req EXCEPT ![p].pc = "done", ![p].ret = NextId(DbKey)]
          ELSE /\ req' = [req EXCEPT ![p].pc = "done", ![p].err = o]
               /\ UNCHANGED DbKey
    /\ UNCHANGED <<DbWallet, DbTransaction, last, sel, session, sync, norm>>

NextRace ==
    \/ Return
    \/ \E n \in WalletNames, a \in CreateAccounts : Idle /\ Create(n, a)
    \/ \E p \in Procs, w \in DOMAIN DbWallet : \E a \in {0, None}, k \in ImportKeys(w) :
          Idle /\ FromKeyCheck(p, w, k, a)
    \/ \E p \in Procs : FromKeyInsert(p)

SpecRace == Init /\ [][NextRace]_vars

-----------------------------------------------------------------------------
(* updateutxos commit by commit: the delete of the first query's rows and its
   commit, then the answer of the service, the new rows and the balances and
   the second commit. A reader of the store sees the states in between *)

\* "[self._session.delete(o) for o in qr.all()]" and the first commit
SyncDelete(w, account_id, key_id) ==
    /\ sync.pc = "idle"
    /\ DbTransaction' = [i \in DOMAIN DbTransaction
                            \ StaleUtxos(DbKey, DbTransaction, account_id)
                         |-> DbTransaction[i]]
    /\ sync' = [NoSync EXCEPT !.pc = "deleted", !.wallet = w,
                              !.account_id = account_id, !.key_id = key_id,
                              !.before = <<DbWallet, DbKey, DbTransaction>>]
    /\ UNCHANGED <<DbWallet, DbKey, last, sel, session, req, norm>>

\* the service answers utxos; the loops over them and the second commit
SyncImport(utxos) ==
    /\ sync.pc = "deleted"
    /\ WriteBalances(sync.wallet, ImportUtxos(DbKey, DbTransaction, <<>>, utxos, 1))
    /\ sync' = [sync EXCEPT !.pc = "done", !.utxos = utxos]
    /\ UNCHANGED <<last, sel, session, req, norm>>

\* the service raises: updateutxos ends after its first commit
SyncFail ==
    /\ sync.pc = "deleted"
    /\ sync' = [sync EXCEPT !.pc = "failed"]
    /\ UNCHANGED <<DbWallet, DbKey, DbTransaction, last, sel, session, req, norm>>

SyncEnd ==
    /\ sync.pc \in {"done", "failed"}
    /\ sync' = NoSync
    /\ UNCHANGED <<DbWallet, DbKey, DbTransaction, last, sel, session, req, norm>>

NextSync ==
    \/ Return
    \/ \E n \in WalletNames, a \in CreateAccounts :
          Idle /\ sync.pc = "idle" /\ Create(n, a)
    \/ \E w \in DOMAIN DbWallet : \E a \in {0, 1, None}, c \in {0, 1} :
          Idle /\ sync.pc = "idle" /\ NewKey(w, a, c) /\ KeysBound(MaxNewKeys)
    \/ \E w \in DOMAIN DbWallet : \E sc \in Scopes(w) :
          Idle /\ SyncDelete(w, sc[1], sc[2])
    \/ \E u \in getutxos(addresslist(DbKey, sync.wallet, sync.account_id, sync.key_id)) :
          SyncImport(u)
    \/ SyncFail
    \/ SyncEnd

SpecSync == Init /\ [][NextSync]_vars

-----------------------------------------------------------------------------
(* Derivation on its own: key_for_path over the paths of two accounts, written
   with either hardening marker, and their prefixes *)

DeriveLevels ==
    << {RootM}, {Hard(DefaultPurpose), <<DefaultPurpose, "h">>}, {Hard(bip44_cointype)},
       {Hard(0), Hard(1), <<1, "h">>}, {Plain(0), Plain(1)}, {Plain(0), Plain(1)} >>

DerivePaths ==
    UNION {{p \in [1..n -> UNION {DeriveLevels[i] : i \in 1..n}] :
               \A i \in 1..n : p[i] \in DeriveLevels[i]} : n \in 1..Len(DeriveLevels)}

NextDerive ==
    \/ Return
    \/ \E n \in WalletNames, a \in CreateAccounts : Idle /\ Create(n, a)
    \/ \E w \in DOMAIN DbWallet, p \in DerivePaths, d \in BOOLEAN :
          Idle /\ KeyForPath(w, p, 0, 0, d) /\ KeysBound(MaxTreeKeys)

SpecDerive == Init /\ [][NextDerive]_vars

-----------------------------------------------------------------------------
(* Spending: sync, create_transaction and send, one call after the other *)

SendAmounts == {100000, 140000}
\* the call before has ended, with a transaction or without
Sent == last.op \in {"create_transaction", "send"} /\ last.pc # "created"

NextSend ==
    \/ Return
    \/ \E n \in WalletNames, a \in CreateAccounts : Idle /\ Create(n, a)
    \/ \E w \in DOMAIN DbWallet : \E sc \in Scopes(w) :
          \E u \in getutxos(addresslist(DbKey, w, sc[1], sc[2])) :
             Idle /\ UpdateUtxos(w, sc[1], sc[2], u)
    \/ \E w \in DOMAIN DbWallet, o \in OutputArrs, ef \in InputsAndFee, a \in Accounts :
          /\ Idle \/ Sent
          /\ CreateTransaction(w, o, ef[1], a, ef[2], DefaultMinConfirms)
          /\ KeysBound(MaxNewKeys)
    \/ \E w \in DOMAIN DbWallet, m \in SendAmounts, a \in {0, None}, f \in {None, 10000} :
          /\ Idle \/ Sent
          /\ SendCreate(w, m, a, f)
          /\ KeysBound(MaxNewKeys)
    \/ \E txid \in {0, 1} : SendBroadcast(txid)

SpecSend == Init /\ [][NextSend]_vars

-----------------------------------------------------------------------------
(* normalize_path on its own, on path strings: a path is the sequence of its
   levels, path.split("/"), a level the sequence of its characters *)

MaxLevelLen == 2
NormChars == {"m", "4", "h", "P", "'"}
NormLevels == UNION {[1..n -> NormChars] : n \in 0..MaxLevelLen}
NormPaths == UNION {[1..n -> NormLevels] : n \in 1..2}

\* normalize_path with the "'" put after the level, the suffix left in place
NormalizeAppend(levels) ==
    IF \E i \in DOMAIN levels : levels[i] = <<>>
    THEN [npath |-> <<>>, err |-> "WalletError"]
    ELSE [npath |-> [i \in DOMAIN levels |->
                       IF levels[i][Len(levels[i])] \in HardMarks
                       THEN levels[i] \o <<"'">>
                       ELSE levels[i]],
          err |-> ""]

\* normalize_path(path) on the levels of the path: [npath, err]
NormalizeLevels(levels) ==
    IF \E i \in DOMAIN levels : levels[i] = <<>>
    THEN [npath |-> <<>>, err |-> "WalletError"]
    ELSE [npath |-> [i \in DOMAIN levels |->
                       IF levels[i][Len(levels[i])] \in HardMarks
                       THEN SubSeq(levels[i], 1, Len(levels[i]) - 1) \o <<"'">>
                       ELSE levels[i]],
          err |-> ""]

InitNorm ==
    /\ DbWallet = <<>>
    /\ DbKey = <<>>
    /\ DbTransaction = <<>>
    /\ last = NoOp
    /\ sel = NoSel
    /\ session = NoSession
    /\ req = [p \in Procs |-> NoReq]
    /\ sync = NoSync
    /\ \E path \in NormPaths : norm = [NoNorm EXCEPT !.pc = "call", !.path = path]

\* normalize_path(path)
NormalizeOnce ==
    /\ norm.pc = "call"
    /\ LET r == NormalizeLevels(norm.path)
       IN norm' = [norm EXCEPT !.pc = IF r.err = "" THEN "once" ELSE "raised",
                               !.once = r.npath, !.err = r.err]
    /\ UNCHANGED <<DbWallet, DbKey, DbTransaction, last, sel, session, req, sync>>

\* normalize_path(normalize_path(path))
NormalizeTwice ==
    /\ norm.pc = "once"
    /\ LET r == NormalizeLevels(norm.once)
       IN norm' = [norm EXCEPT !.pc = IF r.err = "" THEN "twice" ELSE "raised",
                               !.twice = r.npath, !.err = r.err]
    /\ UNCHANGED <<DbWallet, DbKey, DbTransaction, last, sel, session, req, sync>>

NextNorm == NormalizeOnce \/ NormalizeTwice

SpecNorm == InitNorm /\ [][NextNorm]_vars

-----------------------------------------------------------------------------
(* Coin selection on its own: _select_inputs applied to any small table *)

SelValues == {3, 4, 5, 12}
SelAmounts == {4, 10, 13}

SelTables ==
    UNION {[1..n -> [value : SelValues, spend : BOOLEAN]] : n \in 0..MaxSelRows}

InitSel ==
    /\ DbWallet = <<>>
    /\ DbKey = <<>>
    /\ DbTransaction = <<>>
    /\ last = NoOp
    /\ session = NoSession
    /\ req = [p \in Procs |-> NoReq]
    /\ sync = NoSync
    /\ norm = NoNorm
    /\ \E query \in BOOLEAN, amount \in SelAmounts :
       \E rows \in IF query THEN SelTables ELSE {<<>>} :
           sel = [pc |-> "call", amount |-> amount, rows |-> rows,
                  query |-> query, result |-> <<>>]

SelectInputs ==
    /\ sel.pc = "call"
    /\ \E r \in _select_inputs(sel.amount, sel.rows, sel.query) :
           sel' = [sel EXCEPT !.pc = "done", !.result = r]
    /\ UNCHANGED <<DbWallet, DbKey, DbTransaction, last, session, req, sync, norm>>

NextSel == SelectInputs

SpecSel == InitSel /\ [][NextSel]_vars

\* the unspent rows of the scope, and those that cover the amount alone
SelUnspent == {i \in DOMAIN sel.rows : ~sel.rows[i].spend}
SelCovering == {i \in SelUnspent : sel.rows[i].value >= sel.amount}
SelValue(i) == sel.rows[i].value
SelResultValues == [n \in DOMAIN sel.result |-> SelValue(sel.result[n])]

-----------------------------------------------------------------------------
(* Claims *)

\* C2: whenever an unspent record of the scope has value >= target,
\* select_inputs returns exactly one record, unspent, whose value is the
\* least of the values >= target; a spent record is never returned.
C2_SmallestCovering ==
    sel.pc = "done" =>
        /\ \A n \in DOMAIN sel.result : sel.result[n] \in SelUnspent
        /\ SelCovering # {} =>
              /\ Len(sel.result) = 1
              /\ sel.result[1] \in SelCovering
              /\ \A j \in SelCovering : SelValue(sel.result[1]) <= SelValue(j)

\* C2's case: values {3, 5, 12}, target 10, the result is the record of 12
C2_Witness ==
    /\ sel.pc = "done"
    /\ sel.amount = 10
    /\ {SelValue(i) : i \in SelUnspent} = {3, 5, 12}
    /\ Len(sel.result) = 1
    /\ SelValue(sel.result[1]) = 12

\* C3: when no unspent record has value >= target and the unspent records
\* sum to at least the target, the result is the shortest prefix of the
\* unspent records in descending order of value whose sum is >= target:
\* no record twice, values descending, every record left out no larger than
\* any record taken, the sum >= target and < target without the last record.
C3_GreedyPrefix ==
    (sel.pc = "done" /\ SelCovering = {}
        /\ SumOver([i \in SelUnspent |-> SelValue(i)], SelUnspent) >= sel.amount)
    => /\ \A n, k \in DOMAIN sel.result : n # k => sel.result[n] # sel.result[k]
       /\ \A n \in DOMAIN sel.result : sel.result[n] \in SelUnspent
       /\ \A n, k \in DOMAIN sel.result :
              n < k => SelResultValues[n] >= SelResultValues[k]
       /\ \A i \in SelUnspent :
              (\A n \in DOMAIN sel.result : sel.result[n] # i)
                  => \A n \in DOMAIN sel.result : SelValue(i) <= SelResultValues[n]
       /\ SumSeq(SelResultValues) >= sel.amount
       /\ sel.result # <<>>
       /\ SumSeq(SubSeq(SelResultValues, 1, Len(sel.result) - 1)) < sel.amount

\* C3's case: values {3, 5, 4}, target 10, the result is 5, 4, 3
C3_Witness ==
    /\ sel.pc = "done"
    /\ sel.amount = 10
    /\ Cardinality(SelUnspent) = 3
    /\ SelResultValues = <<5, 4, 3>>

\* what the claims about create_transaction and updateutxos speak of
TxReturned == last.op = "create_transaction" /\ last.tx
Synced == last.op = "updateutxos"
Owner(i) == DbKey[DbTransaction[i].key_id]
InputValues == [n \in DOMAIN last.inputs |-> DbTransaction[last.inputs[n]].value]
\* the unspent records of account a of wallet w with at least k confirmations
TxScope(w, a, k) ==
    {i \in DOMAIN DbTransaction :
        /\ ~DbTransaction[i].spend
        /\ Owner(i).wallet_id = w
        /\ Owner(i).account_id = a
        /\ DbTransaction[i].confirmations >= k}
\* the records of the scope of the last sync: a key, an account or the wallet
SyncScope ==
    {i \in DOMAIN DbTransaction :
        /\ Owner(i).wallet_id = last.wallet
        /\ last.key_id # None => DbTransaction[i].key_id = last.key_id
        /\ last.account_id # None => Owner(i).account_id = last.account_id}
Returned(n) == Chain[last.utxos[n]]
\* the records stored for the n-th utxo the service returned
RecordsOf(n) ==
    {i \in DOMAIN DbTransaction :
        /\ DbTransaction[i].tx_hash = Returned(n).tx_hash
        /\ DbTransaction[i].output_n = Returned(n).output_n}
\* the keys that own a returned utxo, and what was returned for each
Owners == {k \in DOMAIN DbKey : \E n \in DOMAIN last.utxos : Returned(n).address = DbKey[k].key}
ReturnedFor(k) ==
    SumSeq([n \in DOMAIN last.utxos |->
               IF Returned(n).address = DbKey[k].key THEN Returned(n).value ELSE 0])

\* C1: every input of a transaction create_transaction(account_id = a,
\* min_confirms = k) returns is an unspent record owned by a key of account a
\* of this wallet with at least k confirmations.
C1_InputsInScope ==
    TxReturned =>
        \A n \in DOMAIN last.inputs :
            last.inputs[n] \in TxScope(last.wallet, last.account_id, last.min_confirms)

\* C4: when the unspent records of the scope sum to less than total output
\* plus fee, create_transaction fails with InsufficientFunds and returns no
\* transaction (the scope not empty, no input_arr passed).
C4_InsufficientFunds ==
    LET scope == TxScope(last.wallet, last.account_id, last.min_confirms)
    IN (/\ last.op = "create_transaction"
        /\ ~last.explicit
        /\ scope # {}
        /\ SumOver([i \in scope |-> DbTransaction[i].value], scope)
              < SumSeq(last.output_arr) + last.fee)
       => last.err = "InsufficientFunds" /\ ~last.tx

\* C5: for every transaction returned, the inputs sum to the outputs plus the
\* fee; change = total input - total output - fee is never negative and is
\* appended as one more output exactly when it is positive.
C5_ChangeArithmetic ==
    TxReturned =>
        LET change == SumSeq(InputValues) - SumSeq(last.output_arr) - last.fee
        IN /\ SumSeq(InputValues) = SumSeq(last.outputs) + last.fee
           /\ change >= 0
           /\ last.outputs = IF change > 0 THEN Append(last.output_arr, change)
                             ELSE last.output_arr

\* C5's case: outputs 100000, fee 30000, one input of 150000, change 20000
C5_Witness ==
    /\ TxReturned
    /\ last.output_arr = <<100000>>
    /\ last.fee = 30000
    /\ InputValues = <<150000>>
    /\ last.outputs = <<100000, 20000>>

\* C6: a create_transaction(account_id = a) that returns a transaction with
\* change sends it to a key that was not there before, on the change branch of
\* account a (change flag 1, path m/purpose'/coin_type'/a'/1/i), i greater
\* than every index used on that branch; with no change it creates no key.
C6_FreshChangeKey ==
    [][(last'.op = "create_transaction" /\ last'.tx) =>
         IF last'.change > 0
         THEN LET branch == AccountPath(last'.account_id) \o <<Plain(1)>>
              IN /\ last'.ck \notin DOMAIN DbKey
                 /\ last'.ck \in DOMAIN DbKey'
                 /\ DbKey'[last'.ck].change = 1
                 /\ DbKey'[last'.ck].account_id = last'.account_id
                 /\ DbKey'[last'.ck].path
                       = branch \o <<Plain(DbKey'[last'.ck].address_index)>>
                 /\ \A j \in DOMAIN DbKey :
                       (/\ DbKey[j].wallet_id = last'.wallet
                        /\ Len(DbKey[j].path) = Len(branch) + 1
                        /\ SubSeq(DbKey[j].path, 1, Len(branch)) = branch)
                       => DbKey[j].path[Len(branch) + 1][1]
                              < DbKey'[last'.ck].address_index
         ELSE DbKey' = DbKey]_vars

\* C7: a create_transaction that fails leaves the stored state as it was: no
\* key added, no ledger record and no balance changed.
C7_FailureChangesNothing ==
    [][(/\ last'.op = "create_transaction"
        /\ last'.err \in {"InsufficientFunds", "MissingPrivateKey",
                          "TransactionVerificationFailed", "UnsupportedOperation"})
       => UNCHANGED <<DbWallet, DbKey, DbTransaction>>]_vars

\* C8: after a sync no stale record remains: every unspent record of the
\* scope still stored is one of the utxos the service returned.
C8_NoStaleRecord ==
    Synced =>
        \A i \in SyncScope :
            ~DbTransaction[i].spend => \E n \in DOMAIN last.utxos : i \in RecordsOf(n)

\* C9: after a sync, each utxo the service returned has exactly one record
\* with its (tx_hash, output_n), owned by the key of its address.
C9_OneRecordPerOutput ==
    Synced =>
        \A n \in DOMAIN last.utxos :
            /\ Cardinality(RecordsOf(n)) = 1
            /\ \A i \in RecordsOf(n) : Owner(i).key = Returned(n).address

\* C10: after a sync, every key that owns a returned utxo has as balance the
\* sum of the values returned for its address, and the wallet has as balance
\* the sum of these per-key totals.
C10_SyncBalances ==
    Synced =>
        /\ \A k \in Owners : DbKey[k].balance = ReturnedFor(k)
        /\ DbWallet[last.wallet].balance
              = SumOver([k \in Owners |-> ReturnedFor(k)], Owners)

\* C10's case: a sync that returns two utxos, one of them not stored by this
\* sync, and both counted in the balances
C10_Witness ==
    /\ Synced
    /\ Len(last.utxos) >= 2
    /\ \E n \in DOMAIN last.utxos : RecordsOf(n) = {}
    /\ DbWallet[last.wallet].balance = 200000

\* the rows of wallet w whose path is p
RowsAt(db, w, p) == {i \in DOMAIN db : db[i].wallet_id = w /\ db[i].path = p}

\* C11: a key_for_path call with an accepted path whose normalized form is
\* the path of a node of the wallet returns that node and inserts nothing,
\* whichever hardening marker the path is written with.
C11_KeyForPathIdempotent ==
    [][(/\ last'.op = "key_for_path"
        /\ last'.disable_check \/ PathCheck(last'.path) = ""
        /\ RowsAt(DbKey, last'.wallet, normalize_path(last'.path)) # {})
       => /\ last'.err = ""
          /\ last'.ret \in RowsAt(DbKey, last'.wallet, normalize_path(last'.path))
          /\ DbKey' = DbKey]_vars

\* C12: no two nodes of one wallet have the same path.
C12_PathUnique ==
    \A i, j \in DOMAIN DbKey :
        (i # j /\ DbKey[i].wallet_id = DbKey[j].wallet_id)
            => DbKey[i].path # DbKey[j].path

\* the account nodes of wallet w
AccountNodes(db, w) == {i \in DOMAIN db : db[i].wallet_id = w /\ db[i].depth = 3}

\* C13: new_account with no account_id always creates a new depth-3 node,
\* with an account id greater than that of every account node of the wallet
\* and at a path m/purpose'/coin_type'/id' that was not in the store.
C13_NewAccountFreshId ==
    [][(last'.op = "new_account" /\ last'.account_id = None)
       => /\ last'.err = ""
          /\ last'.ret \in AccountNodes(DbKey', last'.wallet)
          /\ last'.ret \notin DOMAIN DbKey
          /\ DbKey'[last'.ret].path = AccountPath(DbKey'[last'.ret].account_id)
          /\ RowsAt(DbKey, last'.wallet, DbKey'[last'.ret].path) = {}
          /\ \A i \in AccountNodes(DbKey, last'.wallet) :
                DbKey[i].account_id < DbKey'[last'.ret].account_id]_vars

\* the rows a step adds to the keys table
NewRows == DOMAIN DbKey' \ DOMAIN DbKey
\* the step changes no row it found
RowsKept == \A i \in DOMAIN DbKey : i \in DOMAIN DbKey' /\ DbKey'[i] = DbKey[i]

\* the depth-5 nodes of wallet w with account id a and change flag c
PairLeaves(db, w, a, c) ==
    {i \in DOMAIN db : /\ db[i].wallet_id = w /\ db[i].account_id = a
                       /\ db[i].change = c /\ db[i].depth = 5}

\* C14: new_account(account_id = a) on a wallet that holds a depth-3 node of
\* account a fails with AccountExists, adds no node and changes none.
C14_AccountExists ==
    [][(/\ last'.op = "new_account"
        /\ last'.account_id # None
        /\ \E i \in AccountNodes(DbKey, last'.wallet) :
              DbKey[i].account_id = last'.account_id)
       => last'.err = "AccountExists" /\ DbKey' = DbKey]_vars

\* C15: a successful new_account(a) adds exactly three nodes: the account
\* root m/purpose'/coin_type'/a' at depth 3, which it returns, the payment
\* branch .../a'/0 at depth 4 with change flag 0 and the change branch
\* .../a'/1 at depth 4 with change flag 1, all three with account id a.
C15_NewAccountNodes ==
    [][(last'.op = "new_account" /\ last'.err = "")
       => LET a == DbKey'[last'.ret].account_id
              Node(c) == [depth |-> 4, change |-> c,
                          path |-> AccountPath(a) \o <<Plain(c)>>]
              Shape(i) == [depth |-> DbKey'[i].depth, change |-> DbKey'[i].change,
                           path |-> DbKey'[i].path]
          IN /\ last'.account_id # None => a = last'.account_id
             /\ RowsKept
             /\ Cardinality(NewRows) = 3
             /\ last'.ret \in NewRows
             /\ DbKey'[last'.ret].depth = 3
             /\ DbKey'[last'.ret].path = AccountPath(a)
             /\ {Shape(i) : i \in NewRows \ {last'.ret}} = {Node(0), Node(1)}
             /\ \A i \in NewRows : /\ DbKey'[i].account_id = a
                                   /\ DbKey'[i].wallet_id = last'.wallet]_vars

\* C16: a successful new_key(account, change) inserts exactly one depth-5
\* node, at the path <path of the account node>/change/address_index, and
\* returns it;
\* its address_index is greater than that of every depth-5 node the pair
\* had: the next one after the largest, or the number of nodes the pair had.
C16_NewKeyIndex ==
    [][(last'.op = "new_key" /\ last'.err = "")
       => LET a == IF last'.account_id = None THEN default_account_id
                   ELSE last'.account_id
              c == last'.keychange
              nk == DbKey'[last'.ret]
          IN /\ RowsKept
             /\ {i \in NewRows : DbKey'[i].depth = 5} = {last'.ret}
             /\ nk.wallet_id = last'.wallet /\ nk.account_id = a /\ nk.change = c
             /\ \E k \in AccountNodes(DbKey', last'.wallet) :
                   /\ DbKey'[k].account_id = a
                   /\ nk.path = DbKey'[k].path \o <<Plain(c), Plain(nk.address_index)>>
             /\ \A i \in PairLeaves(DbKey, last'.wallet, a, c) :
                   DbKey[i].address_index < nk.address_index
             /\ nk.address_index =
                   Cardinality(PairLeaves(DbKey, last'.wallet, a, c))
                   \/ \E i \in PairLeaves(DbKey, last'.wallet, a, c) :
                         nk.address_index = DbKey[i].address_index + 1]_vars

\* C16's case: the second new_key of account 0 on the payment branch, which
\* returns the node m/44'/0'/0'/0/1 next to m/44'/0'/0'/0/0
C16_Witness ==
    /\ last.op = "new_key" /\ last.err = ""
    /\ DbKey[last.ret].path = AccountPath(0) \o <<Plain(0), Plain(1)>>
    /\ RowsAt(DbKey, last.wallet, AccountPath(0) \o <<Plain(0), Plain(0)>>) # {}

\* the paths C17 speaks of: purpose or coin type not the wallet's, or the
\* purpose, coin type or account segment unhardened or missing
BadPath(path) ==
    \/ Len(path) < 4
    \/ path[2][1] # DefaultPurpose
    \/ path[3][1] # bip44_cointype
    \/ \E i \in 2..4 : path[i][2] \notin HardMarks

\* C17: key_for_path in strict mode answers such a path with PurposeMismatch,
\* CointypeMismatch or UnhardenedPath and leaves the key store unchanged.
C17_StrictChecks ==
    [][(/\ last'.op = "key_for_path"
        /\ ~last'.disable_check
        /\ BadPath(last'.path))
       => /\ last'.err \in {"PurposeMismatch", "CointypeMismatch", "UnhardenedPath"}
          /\ DbKey' = DbKey]_vars

\* the keys of wallet w and the ledger records they own
KeysOf(db, w) == {i \in DOMAIN db : db[i].wallet_id = w}
RecordsOfWallet(w) ==
    {i \in DOMAIN DbTransaction : DbTransaction[i].key_id \in KeysOf(DbKey, w)}

\* C18: delete_wallet without force on a wallet one of whose keys has a
\* nonzero balance fails with ForceDeleteRequired and deletes nothing.
C18_ForceDeleteRequired ==
    [][(/\ last'.op = "delete_wallet"
        /\ ~last'.force
        /\ \E k \in KeysOf(DbKey, last'.wallet) : DbKey[k].balance # 0)
       => /\ last'.err = "ForceDeleteRequired"
          /\ UNCHANGED <<DbWallet, DbKey, DbTransaction>>]_vars

\* C18's case: the deletion of a wallet with a funded key was refused, next to
\* another wallet
C18_Witness ==
    /\ last.op = "delete_wallet" /\ last.err = "ForceDeleteRequired"
    /\ last.wallet \in DOMAIN DbWallet
    /\ \E k \in KeysOf(DbKey, last.wallet) : DbKey[k].balance = 150000
    /\ RecordsOfWallet(last.wallet) # {}
    /\ Cardinality(DOMAIN DbWallet) = 2

\* C19: after a successful delete_wallet(w) the store holds no wallet row of
\* w, no key of w and no ledger record of a key of w, and the rows of the
\* other wallets are as before.
C19_DeleteCascades ==
    [][(last'.op = "delete_wallet" /\ last'.err = "")
       => /\ last'.wallet \notin DOMAIN DbWallet'
          /\ KeysOf(DbKey', last'.wallet) = {}
          /\ \A i \in RecordsOfWallet(last'.wallet) : i \notin DOMAIN DbTransaction'
          /\ \A o \in DOMAIN DbWallet \ {last'.wallet} :
                /\ o \in DOMAIN DbWallet' /\ DbWallet'[o] = DbWallet[o]
                /\ \A k \in KeysOf(DbKey, o) : k \in DOMAIN DbKey' /\ DbKey'[k] = DbKey[k]
                /\ \A i \in RecordsOfWallet(o) :
                      i \in DOMAIN DbTransaction' /\ DbTransaction'[i] = DbTransaction[i]]_vars

\* C20: in one wallet session two lookups that resolve to the same key id
\* return the same object, for cached and for uncached keys alike: the
\* lookups of one key id have returned one object.
C20_SameInstance ==
    \A k \in DOMAIN session.returned : Cardinality(session.returned[k]) <= 1

\* C30: every key node of depth 3 or more has the account id that its path
\* writes in the fourth segment.
C30_AccountIdOfPath ==
    \A k \in DOMAIN DbKey :
        DbKey[k].depth >= 3
        => /\ Len(DbKey[k].path) >= 4
           /\ DbKey[k].account_id = DbKey[k].path[4][1]

\* C21: the key node an operation of wallet W returns belongs to W: the main
\* key of create, the node of import_key, key_for_path and new_key, and the
\* node a lookup finds.
C21_ReturnedKeyOwned ==
    /\ (last.op \in {"create", "import_key", "key_for_path", "new_key"}
        /\ last.err = "")
       => DbKey[last.ret].wallet_id = last.wallet
    /\ (last.op = "key" /\ last.err = "")
       => DbKey[last.key_id].wallet_id = last.wallet

\* C22: two import requests for the same key material of one wallet, their
\* check and insert steps interleaved in any way, leave one row with that key
\* material and both return its id.
C22_NoDuplicateInsert ==
    \A p, q \in Procs :
        (/\ p # q /\ req[p].pc = "done" /\ req[q].pc = "done"
         /\ req[p].wallet = req[q].wallet /\ req[p].key = req[q].key
         /\ req[p].err \notin {"DepthMismatch", "TypeError"}
         /\ req[q].err \notin {"DepthMismatch", "TypeError"})
        => /\ Cardinality({i \in DOMAIN DbKey : DbKey[i].key = req[p].key}) <= 1
           /\ req[p].err = "" /\ req[q].err = ""
           /\ req[p].ret = req[q].ret

C24_ExplicitInputsUnsupported ==
    (last.op = "create_transaction" /\ last.explicit)
    => last.err = "UnsupportedOperation"

\* C25: for a path with no empty segment normalize_path is idempotent, a
\* segment that ended in one of ' H h P p ends in ' with the rest of it
\* unchanged, and every other segment is unchanged.
C25_NormalizeIdempotent ==
    /\ norm.pc \in {"once", "twice", "raised"}
       => ((norm.pc = "raised") <=> (\E i \in DOMAIN norm.path : norm.path[i] = <<>>))
    /\ norm.pc \in {"once", "twice"}
       => /\ Len(norm.once) = Len(norm.path)
          /\ \A i \in DOMAIN norm.path :
                LET level == norm.path[i]
                    n == Len(level)
                IN IF level[n] \in {"'", "H", "h", "P", "p"}
                   THEN norm.once[i] = SubSeq(level, 1, n - 1) \o <<"'">>
                   ELSE norm.once[i] = level
    /\ norm.pc = "twice" => norm.twice = norm.once

\* C25's case: a path with a segment ending in h and a segment with no
\* hardening suffix has been normalized twice
C25_Witness ==
    /\ norm.pc = "twice"
    /\ norm.path = <<<<"m">>, <<"4", "h">>>>
    /\ norm.once = <<<<"m">>, <<"4", "'">>>>

\* the number of segments of the longest prefix of path p that is the path of
\* a node of wallet w, 0 if there is none
AncestorLen(db, w, p) ==
    Max({0} \cup {n \in 1..Len(p) : RowsAt(db, w, SubSeq(p, 1, n)) # {}})

\* C26: a key_for_path call with an accepted path whose longest existing
\* ancestor is A, a proper prefix of it, returns; and a call that returns has
\* inserted one node per segment after A, at the successive extensions of
\* A's path and in that order, has changed no existing node and returns the
\* node of the full path.
C26_DeriveFromAncestor ==
    [][(/\ last'.op = "key_for_path"
        /\ last'.disable_check \/ PathCheck(last'.path) = ""
        /\ AncestorLen(DbKey, last'.wallet, normalize_path(last'.path)) > 0
        /\ \/ last'.err = ""
           \/ AncestorLen(DbKey, last'.wallet, normalize_path(last'.path))
                 < Len(last'.path))
       => LET w == last'.wallet
              target == normalize_path(last'.path)
              n == AncestorLen(DbKey, w, target)
          IN /\ last'.err = ""
             /\ RowsKept
             /\ Cardinality(NewRows) = Len(target) - n
             /\ \A j \in (n + 1)..Len(target) :
                   \E i \in NewRows : /\ DbKey'[i].wallet_id = w
                                      /\ DbKey'[i].path = SubSeq(target, 1, j)
             /\ \A i, k \in NewRows :
                   i < k => Len(DbKey'[i].path) < Len(DbKey'[k].path)
             /\ last'.ret \in RowsAt(DbKey', w, target)]_vars

\* C26's case: a path written with the marker h, three segments below its
\* longest existing ancestor, has been derived
C26_Witness ==
    /\ last.op = "key_for_path" /\ last.err = ""
    /\ last.path = <<RootM, <<DefaultPurpose, "h">>, Hard(bip44_cointype), <<1, "h">>,
                     Plain(0), Plain(1)>>
    /\ Cardinality(DOMAIN DbKey) = CreateKeys + 3
    /\ last.ret = CreateKeys + 3

\* C27: the key nodes of a wallet form a tree: every node with a path of more
\* than one segment has as parent id the id of an earlier node of the same
\* wallet whose path is the node's path without its last segment.
C27_StrictTree ==
    \A k \in DOMAIN DbKey :
        Len(DbKey[k].path) > 1
        => /\ DbKey[k].parent_id \in DOMAIN DbKey
           /\ DbKey[k].parent_id < k
           /\ DbKey[DbKey[k].parent_id].wallet_id = DbKey[k].wallet_id
           /\ DbKey[DbKey[k].parent_id].path
                 = SubSeq(DbKey[k].path, 1, Len(DbKey[k].path) - 1)

\* C28: send hands a transaction to the service only when its
\* create_transaction call returned a signed and verified transaction; when
\* the service answers no transaction id, send fails with BroadcastFailed, and
\* otherwise it returns.
C28_BroadcastAfterVerify ==
    [][(last'.op = "send" /\ last'.pc = "done")
       => /\ last.op = "send" /\ last.pc = "created"
          /\ last'.broadcast <=> (last.err = "" /\ last.tx)
          /\ ~last'.broadcast => last'.err # "" /\ last'.txid = 0
          /\ last'.broadcast
             => last'.err = IF last'.txid = 0 THEN "BroadcastFailed" ELSE ""]_vars

\* C28's case: a send whose create_transaction found no spendable output has
\* ended
C28_Witness ==
    /\ last.op = "send" /\ last.pc = "done"
    /\ last.err = "AttributeError" /\ ~last.broadcast

\* C29: a create_transaction or send that follows a successful one on the
\* same wallet, no sync in between, takes none of its inputs.
C29_NoDoubleSpend ==
    [][(/\ last.op \in {"create_transaction", "send"} /\ last.pc # "created"
        /\ last.err = "" /\ last.tx
        /\ last'.op \in {"create_transaction", "send"} /\ last'.pc # "done"
        /\ last'.wallet = last.wallet)
       => \A i \in DOMAIN last.inputs, j \in DOMAIN last'.inputs :
             last.inputs[i] # last'.inputs[j]]_vars

\* C31: after a sync, whatever its scope and whatever the service returned,
\* the balance of the wallet is the sum of the balances of its keys.
C31_BalanceIsSumOfKeys ==
    last.op = "updateutxos"
    => DbWallet[last.wallet].balance
          = SumOver([k \in KeysOf(DbKey, last.wallet) |-> DbKey[k].balance],
                    KeysOf(DbKey, last.wallet))

====
